---- MODULE Spec2Model ----
(***************************************************************************)
(* Model of torch_geometric/datasets/teeth3ds.py: the Teeth3DS dataset.    *)
(*                                                                         *)
(* Strings are sequences of tokens.  A token stands for a run of           *)
(* characters that no operation of the program ever cuts ("obj", "raw",    *)
(* "a"); the characters the program splits on ("/", "_", ".") are tokens   *)
(* of their own, so split, replace and the glob match are computed on the  *)
(* token sequence the way Python computes them on the characters.          *)
(* Arrays are sequences; a Python index k is position k + 1.               *)
(***************************************************************************)
EXTENDS Integers, Sequences, FiniteSets, TLC

VARIABLES
    root,          \* constructor argument root
    n_sample,      \* self.n_sample
    pre_filter,    \* self.pre_filter  ("None" or the name of a predicate)
    pre_transform, \* self.pre_transform ("None" or the name of a transform)
    split_files,   \* the manifest files glob finds, each a sequence of lines
    fs,            \* the raw directory: path |-> content of the file
    pc,            \* where the program is
    i,             \* process(): number of manifest entries already handled
    cache,         \* the processed directory: file name |-> object saved
    err,           \* the exception that left process(), or NoError
    calls,         \* history: the calls of process_file made so far
    ret            \* what the last call of the public API returned

vars == <<root, n_sample, pre_filter, pre_transform, split_files, fs, pc, i,
          cache, err, calls, ret>>

-----------------------------------------------------------------------------
(* Bounds of the model.                                                    *)

MaxV == 3          \* vertices per mesh: 1..MaxV
MaxN == 3          \* sample counts: 1..MaxN
MaxKpt == 2        \* objects in a keypoint file: 0..MaxKpt
MaxManifest == 3   \* lines over all manifest files: 0..MaxManifest

-----------------------------------------------------------------------------
(* Python's str operations, on token sequences.                            *)

Min(S) == CHOOSE m \in S : \A n \in S : m <= n

\* s.find(sep) + 1: the first position where sep occurs in s, 0 if none
Find(s, sep) ==
    LET hits == {k \in 1..(Len(s) - Len(sep) + 1) :
                    SubSeq(s, k, k + Len(sep) - 1) = sep}
    IN  IF hits = {} THEN 0 ELSE Min(hits)

RECURSIVE Split(_, _)
\* s.split(sep): the pieces between the non-overlapping occurrences of sep,
\* found left to right
Split(s, sep) ==
    LET k == Find(s, sep)
    IN  IF k = 0 THEN <<s>>
        ELSE <<SubSeq(s, 1, k - 1)>>
             \o Split(SubSeq(s, k + Len(sep), Len(s)), sep)

RECURSIVE Join(_, _)
\* sep.join(parts)
Join(parts, sep) ==
    IF Len(parts) = 0 THEN <<>>
    ELSE IF Len(parts) = 1 THEN parts[1]
    ELSE parts[1] \o sep \o Join(Tail(parts), sep)

\* s.replace(old, new)
Replace(s, old, new) == Join(Split(s, old), new)

EndsWith(s, suffix) ==
    /\ Len(s) >= Len(suffix)
    /\ SubSeq(s, Len(s) - Len(suffix) + 1, Len(s)) = suffix

RECURSIVE Flatten(_)
Flatten(ss) == IF ss = <<>> THEN <<>> ELSE Head(ss) \o Flatten(Tail(ss))

\* The literals of the source.
ObjExt == <<".", "obj">>                          \* '.obj'
JsonExt == <<".", "json">>                        \* '.json'
KptExt == <<"_", "_", "kpt", ".", "json">>        \* '__kpt.json'
PtExt == <<".", "pt">>                            \* '.pt'

\* The six class tags of a keypoint file.
LandmarkKeys ==
    <<"Mesial", "Distal", "Cusp", "InnerPoint", "OuterPoint", "FacialPoint">>

-----------------------------------------------------------------------------
(* Python values.                                                          *)

None == [tag |-> "None"]
NoError == [type |-> "None", expected |-> 0, got |-> 0, file_path |-> <<>>]

Error(type, path) ==
    [type |-> type, expected |-> 0, got |-> 0, file_path |-> path]

\* arr[idx] of numpy for an index array idx: the entries of arr at idx, in
\* the order of idx
Gather(arr, idx) == [k \in 1..Len(idx) |-> arr[idx[k] + 1]]

InRange(arr, idx) == \A k \in 1..Len(idx) : idx[k] \in 0..(Len(arr) - 1)

\* tensor.reshape(-1, 3): the rows of three consecutive entries
Reshape3(flat) ==
    [r \in 1..(Len(flat) \div 3) |-> SubSeq(flat, 3 * r - 2, 3 * r)]

-----------------------------------------------------------------------------
(* process_file                                                            *)

Return(value, sampled, transformed) ==
    [kind |-> "return", value |-> value, error |-> NoError,
     sampled |-> sampled, transformed |-> transformed]

Raise(error) ==
    [kind |-> "raise", value |-> None, error |-> error,
     sampled |-> <<>>, transformed |-> FALSE]

\* trimesh.load_mesh(file_path), then mesh[0] when a list came back.  The
\* content of a mesh file is what the loader makes of it: unreadable, one
\* geometry, or a list of geometries.
LoadMesh(file_path) ==
    LET content == fs[file_path]
    IN  IF ~content.readable THEN Raise(Error("MeshLoadError", file_path))
        ELSE IF content.is_list /\ content.geoms = <<>>
             THEN Raise(Error("IndexError", <<>>))
        ELSE Return(content.geoms[1], <<>>, FALSE)

\* The sampled indices: np.random.choice(V, n_sample, replace=True), whose
\* draw is `choice`, when the mesh has fewer vertices than n_sample, else
\* what bucket_fps_kdline_sampling returns for these vertices (mesh.fps:
\* the routine is deterministic, its answer belongs to the mesh).
SampleIndices(mesh, choice) ==
    IF Len(mesh.vertices) < n_sample THEN choice ELSE mesh.fps

\* The draws np.random.choice(V, n, replace=True) can make.
ChoiceOutputs(V, n) == [1..n -> 0..(V - 1)]

\* A faulty variant: the assertion lets a short sample through.
SampleSizeOk_AtMost(sampled_indices) == Len(sampled_indices) <= n_sample

\* assert len(sampled_indices) == self.n_sample, f"... {file_path}"
SampleSizeOk(sampled_indices) == Len(sampled_indices) = n_sample

\* A faulty variant: the diagnostic does not name the file.
SampleMismatch_NoPath(sampled_indices, file_path) ==
    [type |-> "AssertionError", expected |-> n_sample,
     got |-> Len(sampled_indices), file_path |-> <<>>]

SampleMismatch(sampled_indices, file_path) ==
    [type |-> "AssertionError", expected |-> n_sample,
     got |-> Len(sampled_indices), file_path |-> file_path]

SegPath(file_path) == Replace(file_path, ObjExt, JsonExt)
KptPath(file_path) == Replace(file_path, ObjExt, KptExt)

\* A faulty variant: without an annotation file the labels are n_sample zeros.
SegLabels_Zeros(file_path, sampled_indices) ==
    IF SegPath(file_path) \in DOMAIN fs
    THEN Gather(fs[SegPath(file_path)].labels, sampled_indices)
    ELSE [k \in 1..Len(sampled_indices) |-> 0]

\* A faulty variant: the instances are gathered in another order than the
\* points.
SegInstances_Reversed(file_path, sampled_indices) ==
    IF SegPath(file_path) \in DOMAIN fs
    THEN Gather(fs[SegPath(file_path)].instances,
                [k \in 1..Len(sampled_indices) |->
                    sampled_indices[Len(sampled_indices) + 1 - k]])
    ELSE <<>>

\* y and instances: the annotation arrays at the sampled indices, or two
\* empty tensors when there is no annotation file.
SegLabels(file_path, sampled_indices) ==
    IF SegPath(file_path) \in DOMAIN fs
    THEN LET seg_annotations == fs[SegPath(file_path)]
         IN  Gather(seg_annotations.labels, sampled_indices)
    ELSE <<>>

SegInstances(file_path, sampled_indices) ==
    IF SegPath(file_path) \in DOMAIN fs
    THEN LET seg_annotations == fs[SegPath(file_path)]
         IN  Gather(seg_annotations.instances, sampled_indices)
    ELSE <<>>

SegInRange(file_path, sampled_indices) ==
    SegPath(file_path) \in DOMAIN fs =>
        /\ InRange(fs[SegPath(file_path)].labels, sampled_indices)
        /\ InRange(fs[SegPath(file_path)].instances, sampled_indices)

KeySet == {LandmarkKeys[k] : k \in 1..Len(LandmarkKeys)}

RECURSIVE ExtendAll_Prepend(_, _)
\* A faulty variant: a coordinate goes to the front of the list of its class.
ExtendAll_Prepend(keypoints_dict, objects) ==
    IF objects = <<>> THEN keypoints_dict
    ELSE ExtendAll_Prepend(
             [keypoints_dict EXCEPT
                 ![Head(objects).class] = Head(objects).coord \o @],
             Tail(objects))

RECURSIVE ExtendAll(_, _)
\* for keypoint in objects: keypoints_dict[keypoint["class"]].extend(coord)
ExtendAll(keypoints_dict, objects) ==
    IF objects = <<>> THEN keypoints_dict
    ELSE ExtendAll([keypoints_dict EXCEPT
                       ![Head(objects).class] = @ \o Head(objects).coord],
                   Tail(objects))

\* keypoints_dict after the loop over the objects of the keypoint file
KeypointsDict(file_path) ==
    ExtendAll([key \in KeySet |-> <<>>], fs[KptPath(file_path)].objects)

KnownClasses(file_path) ==
    \A k \in 1..Len(fs[KptPath(file_path)].objects) :
        fs[KptPath(file_path)].objects[k].class \in KeySet

\* keypoint_tensors: six empty tensors, or the reshaped lists of the file
KeypointTensors(file_path) ==
    IF KptPath(file_path) \in DOMAIN fs
    THEN [key \in KeySet |-> Reshape3(KeypointsDict(file_path)[key])]
    ELSE [key \in KeySet |-> <<>>]

Reshapable(file_path) ==
    KptPath(file_path) \in DOMAIN fs =>
        \A key \in KeySet : Len(KeypointsDict(file_path)[key]) % 3 = 0

\* file_path.split('.obj')[0].split('_')
JawParts(file_path) == Split(Split(file_path, ObjExt)[1], <<"_">>)

\* jaw=file_path.split('.obj')[0].split('_')[1]
Jaw(file_path) == JawParts(file_path)[2]

\* The hooks handed to the constructor.  A predicate or transform is any
\* function of the record; the model has these.
PreFilter(data) ==
    CASE pre_filter = "HasLabels" -> Len(data.y) > 0
      [] pre_filter = "HasCusp" -> Len(data.cusp) > 0
      [] OTHER -> FALSE

\* a translation of the points
PreTransform(data) ==
    [data EXCEPT !.pos = [k \in 1..Len(data.pos) |-> data.pos[k] + 100]]

\* The hooks at the end of process_file.
ApplyHooks(data, sampled_indices) ==
    IF pre_filter # "None" /\ ~PreFilter(data)
    THEN Return(None, sampled_indices, FALSE)
    ELSE IF pre_transform # "None"
         THEN Return(PreTransform(data), sampled_indices, TRUE)
    ELSE Return(data, sampled_indices, FALSE)

\* Data(pos=..., x=..., y=..., instances=..., jaw=..., mesial=..., ...)
MakeData(mesh, file_path, sampled_indices) ==
    LET keypoint_tensors == KeypointTensors(file_path)
    IN  [tag |-> "Data",
         pos |-> Gather(mesh.vertices, sampled_indices),
         x |-> Gather(mesh.vertex_normals, sampled_indices),
         y |-> SegLabels(file_path, sampled_indices),
         instances |-> SegInstances(file_path, sampled_indices),
         jaw |-> Jaw(file_path),
         mesial |-> keypoint_tensors["Mesial"],
         distal |-> keypoint_tensors["Distal"],
         cusp |-> keypoint_tensors["Cusp"],
         inner_point |-> keypoint_tensors["InnerPoint"],
         outer_point |-> keypoint_tensors["OuterPoint"],
         facial_point |-> keypoint_tensors["FacialPoint"]]

\* process_file(file_path), with `choice` the draw of np.random.choice.  The
\* first statement that raises ends the call.
process_file(file_path, choice) ==
    LET loaded == LoadMesh(file_path)
        mesh == loaded.value
        sampled_indices == SampleIndices(mesh, choice)
    IN  IF loaded.kind = "raise" THEN loaded
        ELSE IF ~SampleSizeOk(sampled_indices)
             THEN Raise(SampleMismatch(sampled_indices, file_path))
        ELSE IF ~InRange(mesh.vertices, sampled_indices)
             THEN Raise(Error("IndexError", <<>>))
        ELSE IF ~SegInRange(file_path, sampled_indices)
             THEN Raise(Error("IndexError", <<>>))
        ELSE IF KptPath(file_path) \in DOMAIN fs /\ ~KnownClasses(file_path)
             THEN Raise(Error("KeyError", <<>>))
        ELSE IF ~Reshapable(file_path)
             THEN Raise(Error("RuntimeError", <<>>))
        ELSE IF Len(JawParts(file_path)) < 2
             THEN Raise(Error("IndexError", <<>>))
        ELSE ApplyHooks(MakeData(mesh, file_path, sampled_indices),
                        sampled_indices)

-----------------------------------------------------------------------------
(* The inputs: what is on disk and how the dataset is configured.          *)

\* a function from a set of <<key, value>> pairs with distinct keys
FnOf(entries) ==
    [key \in {e[1] : e \in entries} |->
        (CHOOSE e \in entries : e[1] = key)[2]]

Put(f, key, value) ==
    [k \in DOMAIN f \cup {key} |-> IF k = key THEN value ELSE f[k]]

\* The file beside a mesh file: same name, the extension replaced.
Sibling(path, ext) == SubSeq(path, 1, Len(path) - Len(ObjExt)) \o ext

\* A geometry of V vertices: vertex k (from 0) lies at 10 + k and has normal
\* 20 + k; fps is what the farthest-point routine answers for it.
Geometry(V, fps) ==
    [vertices |-> [k \in 1..V |-> 9 + k],
     vertex_normals |-> [k \in 1..V |-> 19 + k],
     fps |-> fps]

MeshFile(geoms, is_list, readable) ==
    [kind |-> "mesh", readable |-> readable, is_list |-> is_list,
     geoms |-> geoms]

SegFile(labels, instances) ==
    [kind |-> "seg", labels |-> labels, instances |-> instances]

KptFile(objects) == [kind |-> "kpt", objects |-> objects]

Absent == [kind |-> "absent"]

\* A mesh file with the annotation files beside it (Absent: no such file).
Scan(path, mesh, seg, kpt) ==
    {<<path, mesh>>}
    \cup (IF seg = Absent THEN {} ELSE {<<Sibling(path, JsonExt), seg>>})
    \cup (IF kpt = Absent THEN {} ELSE {<<Sibling(path, KptExt), kpt>>})

\* The sequences over S of a length in lo..hi
SeqsOf(S, lo, hi) == UNION {[1..n -> S] : n \in lo..hi}

\* Sequences of distinct vertex indices that start at vertex 0 (start_idx=0)
\* and have a length in lo..hi: the answers of the farthest-point routine,
\* of the size asked for and of other sizes.
FpsOutputs(V, lo, hi) ==
    {s \in SeqsOf(0..(V - 1), lo, hi) :
        /\ \A j, k \in 1..Len(s) : j # k => s[j] # s[k]
        /\ Len(s) > 0 => s[1] = 0}

Max(a, b) == IF a >= b THEN a ELSE b

\* The answers the model gives the routine for V vertices and n samples:
\* none when it is not called (V < n).
FpsFor(V, n) ==
    IF V < n THEN {<<>>} ELSE FpsOutputs(V, Max(n - 1, 0), n + 1)

\* The raw directory of a root: osp.join(root, 'raw')
RawDir(r) == r \o <<"/", "raw">>

PlainRoot == <<"data">>
Roots == {PlainRoot, <<"my", "_", "data">>}

\* root/raw/<d1>/<d2>/<base>.obj
MeshPath(r, d1, d2, base) ==
    RawDir(r) \o <<"/">> \o d1 \o <<"/">> \o d2 \o <<"/">> \o base \o ObjExt

DefaultPath == MeshPath(PlainRoot, <<"u">>, <<"a">>, <<"a", "_", "u">>)

Config(r, n, filter, transform, files, entries) ==
    [root |-> r, n_sample |-> n, pre_filter |-> filter,
     pre_transform |-> transform, split_files |-> files, fs |-> FnOf(entries)]

-----------------------------------------------------------------------------
(* The inputs of process_file called on one file.                          *)

\* An annotation file for V vertices: none, two arrays of V entries, or
\* (malformed) two arrays that are one entry short.
SegFiles(V) ==
    {Absent}
    \cup {SegFile(l, ins) : l \in [1..V -> {0, 1}], ins \in [1..V -> {1, 2}]}
    \cup {SegFile([k \in 1..(V - 1) |-> 0], [k \in 1..(V - 1) |-> 1])}

\* The segmentation file that labels vertex k (from 0) 30 + k, instance 40 + k
PlainSeg(V) == SegFile([k \in 1..V |-> 29 + k], [k \in 1..V |-> 39 + k])

OneGeom(V, fps) == MeshFile(<<Geometry(V, fps)>>, FALSE, TRUE)

\* The farthest-point answer of the right size: the first n vertices.
GoodFps(V, n) == IF V < n THEN <<>> ELSE [k \in 1..n |-> k - 1]

\* The objects of a keypoint file: a class tag, recognized or not, and a
\* coordinate.
KptObjects ==
    {[class |-> c, coord |-> xyz] :
        c \in KeySet \cup {"Unknown"}, xyz \in {<<1, 2, 3>>, <<4, 5, 6>>}}

\* An object whose coordinate has two components.
FlatObject == [class |-> "Cusp", coord |-> <<7, 8>>]

\* Cusp, Mesial, Cusp: two cusps and a mesial point between them.
CuspMesialCusp ==
    <<[class |-> "Cusp", coord |-> <<1, 2, 3>>],
      [class |-> "Mesial", coord |-> <<1, 2, 3>>],
      [class |-> "Cusp", coord |-> <<4, 5, 6>>]>>

KptFiles ==
    {KptFile(objects) : objects \in SeqsOf(KptObjects, 0, MaxKpt)}
    \cup {KptFile(<<FlatObject>>), KptFile(<<FlatObject, FlatObject>>),
          KptFile(CuspMesialCusp)}

OneCusp == KptFile(<<[class |-> "Cusp", coord |-> <<1, 2, 3>>]>>)

BaseNames ==
    {<<"a", "_", "u">>, <<"p", "_", "upper", "_", "scan">>, <<"a">>}

Filters == {"None", "HasLabels", "HasCusp"}
Transforms == {"None", "Translate"}

\* The mesh files of the raw directory.
MeshPaths == {path \in DOMAIN fs : fs[path].kind = "mesh"}

\* The draws np.random.choice can make in a call on file_path (one empty
\* draw where the call does not reach it).
Draws(file_path) ==
    LET loaded == LoadMesh(file_path)
    IN  IF loaded.kind = "return" /\ Len(loaded.value.vertices) < n_sample
        THEN ChoiceOutputs(Len(loaded.value.vertices), n_sample)
        ELSE {<<>>}

\* What a call of the public API gave its caller.
Result(api, arg, kind, value) ==
    [api |-> api, arg |-> arg, kind |-> kind, value |-> value]

NoResult == Result("none", 0, "return", None)

Call(at, file_path, out) == [at |-> at, file_path |-> file_path, out |-> out]

\* The state before process_file is called on the one mesh file of a raw
\* directory.
StartFile(c) ==
    /\ root = c.root
    /\ n_sample = c.n_sample
    /\ pre_filter = c.pre_filter
    /\ pre_transform = c.pre_transform
    /\ split_files = c.split_files
    /\ fs = c.fs
    /\ pc = "idle"
    /\ i = 0
    /\ cache = <<>>
    /\ err = NoError
    /\ calls = <<>>
    /\ ret = NoResult

\* The inputs of the sampling: every number of vertices and of samples,
\* every answer of the farthest-point routine, every segmentation file.
SamplingInit ==
    \E V \in 1..MaxV, n \in 1..MaxN :
        \E fps \in FpsFor(V, n), seg \in SegFiles(V) :
            StartFile(Config(PlainRoot, n, "None", "None", <<>>,
                Scan(DefaultPath, OneGeom(V, fps), seg, Absent)))

\* The inputs of the landmark parsing: every keypoint file, sampled on
\* either branch.
LandmarkInit ==
    \E n \in {1, MaxN}, kpt \in KptFiles :
        StartFile(Config(PlainRoot, n, "None", "None", <<>>,
            Scan(DefaultPath, OneGeom(1, GoodFps(1, n)), Absent, kpt)))

\* The paths: roots and directories with and without "_", base names of
\* one, two and three segments.
PathInit ==
    \E r \in Roots, d1 \in {<<"u">>, <<"part", "_", "1">>},
       base \in BaseNames, seg \in {Absent, PlainSeg(1)},
       kpt \in {Absent, OneCusp} :
        StartFile(Config(r, 1, "None", "None", <<>>,
            Scan(MeshPath(r, d1, <<"a">>, base), OneGeom(1, GoodFps(1, 1)),
                 seg, kpt)))

\* The hooks.
HookInit ==
    \E n \in {1, MaxN}, filter \in Filters, transform \in Transforms,
       seg \in {Absent, PlainSeg(2)}, kpt \in {Absent, OneCusp} :
        StartFile(Config(PlainRoot, n, filter, transform, <<>>,
            Scan(DefaultPath, OneGeom(2, GoodFps(2, n)), seg, kpt)))

\* What the loader makes of the file: unreadable, an empty list, a list of
\* two geometries.
LoadInit ==
    \E mesh \in {MeshFile(<<>>, FALSE, FALSE),
                 MeshFile(<<>>, TRUE, TRUE),
                 MeshFile(<<Geometry(2, <<0>>), Geometry(1, <<0>>)>>,
                          TRUE, TRUE)} :
        StartFile(Config(PlainRoot, 1, "None", "None", <<>>,
            Scan(DefaultPath, mesh, PlainSeg(2), Absent)))

InitFile ==
    \/ SamplingInit
    \/ LandmarkInit
    \/ PathInit
    \/ HookInit
    \/ LoadInit

\* dataset.process_file(file_path) called from outside
CallProcessFile ==
    /\ pc = "idle"
    /\ \E file_path \in MeshPaths : \E choice \in Draws(file_path) :
        LET out == process_file(file_path, choice)
        IN  /\ ret' = Result("process_file", file_path, out.kind, out.value)
            /\ calls' = Append(calls, Call(0, file_path, out))
            /\ err' = out.error
    /\ pc' = "returned"
    /\ UNCHANGED <<root, n_sample, pre_filter, pre_transform, split_files,
                   fs, i, cache>>

NextFile == CallProcessFile

SpecFile == InitFile /\ [][NextFile]_vars

-----------------------------------------------------------------------------
(* The dataset: process, len and get.                                      *)

\* combined_list: the lines of the manifest files, in the order glob gave
\* the files
combined_list == Flatten(split_files)

\* processed_file_names: [f"{file_name}.pt" for file_name in combined_list]
processed_file_names ==
    [k \in 1..Len(combined_list) |-> combined_list[k] \o PtExt]

\* file.split('.')[0]
FileName(file) == Split(file, <<".">>)[1]

\* Whether glob's '*' can stand for the whole of a path component or for
\* its front: no component is empty, and '*' matches no leading dot.
Visible(name) == name # <<>> /\ name[1] # "."

\* glob(self.raw_dir + '/**/*/*' + file_name + '.obj'), as a set.  Without
\* recursive=True '**' is '*': the pattern is the raw directory, two
\* directories, and a name that ends with file_name + '.obj'.
Glob(file_name) ==
    {path \in DOMAIN fs :
        LET names == Split(path, <<"/">>)
            raw == Split(RawDir(root), <<"/">>)
            n == Len(names)
        IN  /\ n = Len(raw) + 3
            /\ SubSeq(names, 1, Len(raw)) = raw
            /\ Visible(names[n - 2])
            /\ Visible(names[n - 1])
            /\ Visible(names[n])
            /\ EndsWith(names[n], file_name \o ObjExt)}

\* A faulty variant: the first of several matches will do.
Resolved_AtLeastOne(matches) == Cardinality(matches) >= 1

\* if len(file_path) == 1
Resolved(matches) == Cardinality(matches) = 1

\* A faulty variant: the record is saved under the name the mesh was
\* looked up by.
SaveName_Stem(file) == FileName(file) \o PtExt

\* The name torch.save writes in the processed directory.
SaveName(file) == file

\* The name get() reads in the processed directory.
LoadName(idx) == processed_file_names[idx + 1]

\* An iteration of the loop of process() on an identifier that glob
\* resolves to no file or to several: nothing happens.
ProcessSkip ==
    /\ pc = "process"
    /\ i < Len(processed_file_names)
    /\ ~Resolved(Glob(FileName(processed_file_names[i + 1])))
    /\ i' = i + 1
    /\ UNCHANGED <<root, n_sample, pre_filter, pre_transform, split_files,
                   fs, pc, cache, err, calls, ret>>

\* An iteration on an identifier that resolves to one file, on which
\* process_file returns: what it returned is saved.
ProcessSave ==
    /\ pc = "process"
    /\ i < Len(processed_file_names)
    /\ LET file == processed_file_names[i + 1]
           file_path == Glob(FileName(file))
       IN  /\ Resolved(file_path)
           /\ \E path \in file_path : \E choice \in Draws(path) :
               LET out == process_file(path, choice)
               IN  /\ out.kind = "return"
                   /\ calls' = Append(calls, Call(i + 1, path, out))
                   /\ cache' = Put(cache, SaveName(file), out.value)
    /\ i' = i + 1
    /\ UNCHANGED <<root, n_sample, pre_filter, pre_transform, split_files,
                   fs, pc, err, ret>>

\* A faulty variant: the exception is caught and the loop goes on.
ProcessRaise_BestEffort ==
    /\ pc = "process"
    /\ i < Len(processed_file_names)
    /\ LET file == processed_file_names[i + 1]
           file_path == Glob(FileName(file))
       IN  /\ Resolved(file_path)
           /\ \E path \in file_path : \E choice \in Draws(path) :
               LET out == process_file(path, choice)
               IN  /\ out.kind = "raise"
                   /\ calls' = Append(calls, Call(i + 1, path, out))
                   /\ err' = out.error
    /\ i' = i + 1
    /\ UNCHANGED <<root, n_sample, pre_filter, pre_transform, split_files,
                   fs, pc, cache, ret>>

\* An iteration on an identifier that resolves to one file, on which
\* process_file raises: the exception leaves process().
ProcessRaise ==
    /\ pc = "process"
    /\ i < Len(processed_file_names)
    /\ LET file == processed_file_names[i + 1]
           file_path == Glob(FileName(file))
       IN  /\ Resolved(file_path)
           /\ \E path \in file_path : \E choice \in Draws(path) :
               LET out == process_file(path, choice)
               IN  /\ out.kind = "raise"
                   /\ calls' = Append(calls, Call(i + 1, path, out))
                   /\ err' = out.error
    /\ pc' = "failed"
    /\ UNCHANGED <<root, n_sample, pre_filter, pre_transform, split_files,
                   fs, i, cache, ret>>

\* The loop of process() has run through processed_file_names.
ProcessEnd ==
    /\ pc = "process"
    /\ i = Len(processed_file_names)
    /\ pc' = "done"
    /\ UNCHANGED <<root, n_sample, pre_filter, pre_transform, split_files,
                   fs, i, cache, err, calls, ret>>

\* len()
DatasetLen ==
    /\ pc = "done"
    /\ ret' = Result("len", 0, "return", Len(processed_file_names))
    /\ UNCHANGED <<root, n_sample, pre_filter, pre_transform, split_files,
                   fs, pc, i, cache, err, calls>>

\* get(idx): torch.load of the file named at idx; an index past the list
\* and a file that is not there raise.
DatasetGet ==
    /\ pc = "done"
    /\ \E idx \in 0..Len(processed_file_names) :
        ret' = IF idx >= Len(processed_file_names)
               THEN Result("get", idx, "raise", "IndexError")
               ELSE IF LoadName(idx) \notin DOMAIN cache
               THEN Result("get", idx, "raise", "FileNotFoundError")
               ELSE Result("get", idx, "return", cache[LoadName(idx)])
    /\ UNCHANGED <<root, n_sample, pre_filter, pre_transform, split_files,
                   fs, pc, i, cache, err, calls>>

\* The identifiers of the manifests: two scans, and a name with a dot in it
\* (looked up as x a_u, saved as x a_u.v.pt).
IdA == <<"a", "_", "u">>
IdB == <<"b", "_", "l">>
IdDot == <<"x", "a", "_", "u", ".", "v">>
Identifiers == {IdA, IdB, IdDot}

\* Where mesh files lie: the scan a_u, a scan whose name ends in a_u, the
\* scan b_l, and b_l one directory short.
PathA == MeshPath(PlainRoot, <<"u">>, <<"a">>, IdA)
PathXXA == MeshPath(PlainRoot, <<"u">>, <<"x">>, <<"x">> \o IdA)
PathB == MeshPath(PlainRoot, <<"l">>, <<"b">>, IdB)
PathShallow == RawDir(PlainRoot) \o <<"/", "l", "/">> \o IdB \o ObjExt

BadTag == KptFile(<<[class |-> "Unknown", coord |-> <<1, 2, 3>>]>>)

\* What lies at a path, for n samples: nothing, a labelled mesh with fewer
\* vertices than n, a mesh with landmarks, a mesh for which the
\* farthest-point routine answers one index short or one index too many,
\* a mesh whose keypoint file has an unknown tag.
ScanOf(kind, path, n) ==
    CASE kind = "absent" -> {}
      [] kind = "labelled" ->
            Scan(path, OneGeom(n - 1, <<>>), PlainSeg(n - 1), Absent)
      [] kind = "landmarks" ->
            Scan(path, OneGeom(n, GoodFps(n, n)), Absent, OneCusp)
      [] kind = "badfps" ->
            Scan(path, OneGeom(n, GoodFps(n, n - 1)), Absent, Absent)
      [] kind = "longfps" ->
            Scan(path, OneGeom(n + 1, GoodFps(n + 1, n + 1)), Absent, Absent)
      [] kind = "badtag" ->
            Scan(path, OneGeom(n, GoodFps(n, n)), Absent, BadTag)

\* The manifests: the lines in the two files of a mode (as
\* training_lower.txt and training_upper.txt), the first holding half.
Halves(m) ==
    <<SubSeq(m, 1, Len(m) \div 2), SubSeq(m, Len(m) \div 2 + 1, Len(m))>>

Hooks ==
    {<<"None", "None">>, <<"HasLabels", "Translate">>, <<"HasCusp", "None">>}

\* Before process(): up to MaxManifest manifest lines, a raw directory with
\* or without each of the scans, an empty processed directory.
Init ==
    \E h \in Hooks, m \in SeqsOf(Identifiers, 0, MaxManifest),
       a \in {"absent", "labelled", "landmarks", "badtag"},
       xa \in {"absent", "landmarks"},
       b \in {<<PathB, "absent">>, <<PathB, "badfps">>,
              <<PathB, "longfps">>, <<PathShallow, "labelled">>} :
        LET c == Config(PlainRoot, 2, h[1], h[2], Halves(m),
                        ScanOf(a, PathA, 2) \cup ScanOf(xa, PathXXA, 2)
                        \cup ScanOf(b[2], b[1], 2))
        IN  /\ root = c.root
            /\ n_sample = c.n_sample
            /\ pre_filter = c.pre_filter
            /\ pre_transform = c.pre_transform
            /\ split_files = c.split_files
            /\ fs = c.fs
            /\ pc = "process"
            /\ i = 0
            /\ cache = <<>>
            /\ err = NoError
            /\ calls = <<>>
            /\ ret = NoResult

Next ==
    \/ ProcessSkip
    \/ ProcessSave
    \/ ProcessRaise
    \/ ProcessEnd
    \/ DatasetLen
    \/ DatasetGet

Spec == Init /\ [][Next]_vars

-----------------------------------------------------------------------------
(* What the claims speak of.                                               *)

\* The calls of process_file that returned a record.
Records == {k \in 1..Len(calls) :
               calls[k].out.kind = "return" /\ calls[k].out.value # None}

\* The geometry process_file works on: the first the loader yields.
MeshOf(path) == fs[path].geoms[1]

HasSeg(path) == Sibling(path, JsonExt) \in DOMAIN fs
HasKpt(path) == Sibling(path, KptExt) \in DOMAIN fs

\* The landmark group of a record under its class tag.
Group(data, key) ==
    CASE key = "Mesial" -> data.mesial
      [] key = "Distal" -> data.distal
      [] key = "Cusp" -> data.cusp
      [] key = "InnerPoint" -> data.inner_point
      [] key = "OuterPoint" -> data.outer_point
      [] key = "FacialPoint" -> data.facial_point

\* The point a translation made q of.
Original(out, q) == IF out.transformed THEN q - 100 ELSE q

\* C1: every record process_file returns has n_sample positions and
\* n_sample normals, whether the mesh has fewer vertices than n_sample or
\* not.
ThmC1_SampleCount ==
    \A k \in Records :
        /\ Len(calls[k].out.value.pos) = n_sample
        /\ Len(calls[k].out.value.x) = n_sample

\* A record was returned for a mesh with fewer vertices than n_sample.
WitC1_SparseMesh ==
    \E k \in Records :
        /\ Len(MeshOf(calls[k].file_path).vertices) < n_sample
        /\ Len(calls[k].out.value.pos) = n_sample

\* C2: with a segmentation file beside the mesh, the labels and the
\* instances of a returned record have n_sample entries, and entry k of the
\* positions, the normals, the labels and the instances all belong to the
\* vertex that is entry k of the sampled indices.
ThmC2_CoIndexed ==
    \A c \in Records :
        LET path == calls[c].file_path
            out == calls[c].out
            data == out.value
            mesh == MeshOf(path)
            seg == fs[Sibling(path, JsonExt)]
        IN  HasSeg(path) =>
            /\ Len(data.y) = n_sample
            /\ Len(data.instances) = n_sample
            /\ Len(out.sampled) = n_sample
            /\ \A k \in 1..n_sample :
                LET v == out.sampled[k] + 1
                IN  /\ v \in 1..Len(mesh.vertices)
                    /\ Original(out, data.pos[k]) = mesh.vertices[v]
                    /\ data.x[k] = mesh.vertex_normals[v]
                    /\ data.y[k] = seg.labels[v]
                    /\ data.instances[k] = seg.instances[v]

\* A labelled record whose sampled indices are not 0, 1, 2, ...: the second
\* point is vertex 0 and the first is not, and the two carry different
\* labels.
WitC2_Shuffled ==
    \E c \in Records :
        /\ HasSeg(calls[c].file_path)
        /\ n_sample >= 2
        /\ calls[c].out.sampled[1] # 0
        /\ calls[c].out.sampled[2] = 0
        /\ calls[c].out.value.y[1] # calls[c].out.value.y[2]

\* The base name of a path without the mesh extension, cut at "_".
BaseSegments(path) ==
    LET names == Split(path, <<"/">>)
        base == names[Len(names)]
    IN  Split(SubSeq(base, 1, Len(base) - Len(ObjExt)), <<"_">>)

\* C5: the jaw of every returned record is the second underscore-delimited
\* segment of the base name of the file, whatever directories precede it.
CexC5_JawFromBaseName ==
    \A k \in Records :
        /\ Len(BaseSegments(calls[k].file_path)) >= 2
        /\ calls[k].out.value.jaw = BaseSegments(calls[k].file_path)[2]

\* What has to hold of a mesh file for process_file to get past the load,
\* the sampling and the jaw.
MeshValid(path) ==
    /\ fs[path].readable
    /\ fs[path].geoms # <<>>
    /\ Len(MeshOf(path).vertices) >= n_sample =>
           /\ Len(MeshOf(path).fps) = n_sample
           /\ InRange(MeshOf(path).vertices, MeshOf(path).fps)
    /\ Len(BaseSegments(path)) >= 2

\* C6: a missing annotation file is no error.  Without a segmentation file
\* the labels and instances of the record are empty, without a keypoint file
\* the six landmark groups are; the record has its n_sample positions and
\* normals all the same, and a call on a valid mesh with neither file
\* returns a record.
ThmC6_MissingAnnotations ==
    /\ \A k \in Records :
        LET path == calls[k].file_path
            data == calls[k].out.value
        IN  /\ ~HasSeg(path) =>
                /\ Len(data.y) = 0 /\ Len(data.instances) = 0
                /\ Len(data.pos) = n_sample /\ Len(data.x) = n_sample
            /\ ~HasKpt(path) =>
                /\ \A key \in KeySet : Len(Group(data, key)) = 0
                /\ Len(data.pos) = n_sample /\ Len(data.x) = n_sample
    /\ \A k \in 1..Len(calls) :
        LET path == calls[k].file_path
        IN  (~HasSeg(path) /\ ~HasKpt(path) /\ MeshValid(path)
             /\ pre_filter = "None")
            => k \in Records

\* A record for a mesh with neither annotation file.
WitC6_NoAnnotations ==
    \E k \in Records :
        /\ ~HasSeg(calls[k].file_path)
        /\ ~HasKpt(calls[k].file_path)
        /\ calls[k].out.value.y = <<>>

\* The coordinates of the objects of a keypoint file that carry the tag,
\* in file order.
RECURSIVE Tagged(_, _)
Tagged(objects, key) ==
    IF objects = <<>> THEN <<>>
    ELSE (IF Head(objects).class = key THEN <<Head(objects).coord>>
          ELSE <<>>) \o Tagged(Tail(objects), key)

WellFormed(objects) ==
    \A k \in 1..Len(objects) :
        objects[k].class \in KeySet /\ Len(objects[k].coord) = 3

\* C7: when every object of the keypoint file has a recognized tag and a
\* coordinate of three components, each landmark group of the record holds
\* the coordinates of the objects with its tag, one row each, in file
\* order, and the file makes no call fail.
ThmC7_LandmarkGroups ==
    \A k \in 1..Len(calls) :
        LET path == calls[k].file_path
            objects == fs[Sibling(path, KptExt)].objects
        IN  (HasKpt(path) /\ WellFormed(objects)) =>
            /\ calls[k].out.kind = "raise" =>
                   calls[k].out.error.type \notin {"KeyError", "RuntimeError"}
            /\ k \in Records =>
                   \A key \in KeySet :
                       Group(calls[k].out.value, key) = Tagged(objects, key)

\* Cusp twice and Mesial once: two rows, one row, and four empty groups.
WitC7_CuspCuspMesial ==
    \E k \in Records :
        LET data == calls[k].out.value
        IN  /\ HasKpt(calls[k].file_path)
            /\ Len(data.cusp) = 2 /\ data.cusp[1] # data.cusp[2]
            /\ Len(data.mesial) = 1
            /\ Len(data.distal) = 0 /\ Len(data.inner_point) = 0
            /\ Len(data.outer_point) = 0 /\ Len(data.facial_point) = 0

-----------------------------------------------------------------------------
(* The claims about the dataset.                                           *)

RECURSIVE TotalLines(_)
\* The number of lines of the manifest files.
TotalLines(files) ==
    IF files = <<>> THEN 0 ELSE Len(Head(files)) + TotalLines(Tail(files))

RECURSIVE LineAt(_, _)
\* The line at position idx (from 0) of the manifest files read in order.
LineAt(files, idx) ==
    IF idx < Len(Head(files)) THEN Head(files)[idx + 1]
    ELSE LineAt(Tail(files), idx - Len(Head(files)))

\* The cache entry of the identifier at position idx (from 0).
EntryOf(idx) == LineAt(split_files, idx) \o PtExt

\* What glob finds for the identifier at position idx (from 0).
MatchesOf(idx) == Glob(FileName(processed_file_names[idx + 1]))

Positions == 0..(TotalLines(split_files) - 1)

\* The calls process() made for the identifier id that returned.
SavedFor(id) ==
    {k \in 1..Len(calls) :
        /\ calls[k].at >= 1
        /\ calls[k].out.kind = "return"
        /\ LineAt(split_files, calls[k].at - 1) = id}

Last(S) == CHOOSE m \in S : \A n \in S : n <= m

\* C3: a record the pre_filter rejects is not persisted, not even as a
\* null placeholder, and pre_transform is not applied to it.
CexC3_RejectedNotPersisted ==
    \A k \in 1..Len(calls) :
        (calls[k].at >= 1 /\ calls[k].out.kind = "return"
         /\ calls[k].out.value = None)
        => /\ EntryOf(calls[k].at - 1) \notin DOMAIN cache
           /\ ~calls[k].out.transformed

\* C4: after the pass len() is the number of lines of the manifest files,
\* and get(idx) raises when nothing was saved for the identifier at idx and
\* returns what process() saved last for that identifier otherwise.
ThmC4_LenAndGet ==
    /\ ret.api = "len" => ret.value = TotalLines(split_files)
    /\ (ret.api = "get" /\ ret.arg \in Positions) =>
        LET saved == SavedFor(LineAt(split_files, ret.arg))
        IN  IF saved = {}
            THEN ret.kind = "raise" /\ ret.value = "FileNotFoundError"
            ELSE ret.kind = "return"
                 /\ ret.value = calls[Last(saved)].out.value

\* get(idx) failed for an identifier that was not resolved, in a dataset
\* that holds records of other identifiers.
WitC4_MissingEntry ==
    /\ ret.api = "get" /\ ret.kind = "raise" /\ ret.arg \in Positions
    /\ \E idx \in Positions :
        /\ EntryOf(idx) \in DOMAIN cache
        /\ cache[EntryOf(idx)] # None

\* A mesh file on which process_file returns whatever is drawn.
AlwaysReturns(path) ==
    \A choice \in Draws(path) : process_file(path, choice).kind = "return"

ValidAt(idx) ==
    /\ Cardinality(MatchesOf(idx)) = 1
    /\ \A path \in MatchesOf(idx) : AlwaysReturns(path)

\* C8: a file whose processing fails aborts only that file: every later
\* identifier that resolves to one valid mesh file is processed and
\* persisted all the same.
CexC8_BestEffort ==
    pc \in {"done", "failed"} =>
        \A idx \in Positions : ValidAt(idx) => EntryOf(idx) \in DOMAIN cache

\* C8, amended: a file whose processing fails ends the pass.  The exception
\* leaves process() at that identifier, the failed call saves nothing, and
\* the cache holds what was saved for the identifiers before it and
\* nothing for any after it.
ThmC8_FailFast ==
    err # NoError =>
        /\ pc = "failed"
        /\ Len(calls) >= 1
        /\ calls[Len(calls)].out.kind = "raise"
        /\ calls[Len(calls)].out.error = err
        /\ calls[Len(calls)].at = i + 1
        /\ \A k \in 1..(Len(calls) - 1) :
            calls[k].at <= i /\ calls[k].out.kind = "return"
        /\ DOMAIN cache =
            {EntryOf(idx) : idx \in {p \in Positions :
                p < i /\ Cardinality(MatchesOf(p)) = 1}}

\* The pass failed after it had saved a record, with a valid file still to
\* come.
WitC8_FailedMidway ==
    /\ pc = "failed"
    /\ cache # <<>>
    /\ \E idx \in Positions :
        idx > i /\ ValidAt(idx) /\ EntryOf(idx) \notin DOMAIN cache

\* C9: when the farthest-point routine answers with another number of
\* indices than n_sample, process_file raises, the diagnostic names the
\* file and the two counts, no record comes back, and nothing is persisted
\* for the file.
ThmC9_SizeMismatchFails ==
    \A k \in 1..Len(calls) :
        LET path == calls[k].file_path
            out == calls[k].out
        IN  (fs[path].readable /\ fs[path].geoms # <<>>
             /\ Len(MeshOf(path).vertices) >= n_sample
             /\ Len(MeshOf(path).fps) # n_sample)
            => /\ out.kind = "raise"
               /\ out.value = None
               /\ out.error.type = "AssertionError"
               /\ out.error.file_path = path
               /\ out.error.expected = n_sample
               /\ out.error.got = Len(MeshOf(path).fps)
               /\ calls[k].at >= 1 =>
                    /\ pc = "failed"
                    /\ \A idx \in Positions :
                        path \in MatchesOf(idx) =>
                            EntryOf(idx) \notin DOMAIN cache

\* The pass failed on a sample of the wrong size.
WitC9_WrongSize ==
    /\ pc = "failed"
    /\ err.type = "AssertionError"
    /\ err.got # err.expected
    /\ Len(calls) >= 1
    /\ err.file_path = calls[Len(calls)].file_path

\* A step of the loop of process() as C10 has it.
StepC10 ==
    (pc = "process" /\ i < Len(processed_file_names)) =>
        LET file == EntryOf(i)
            matches == MatchesOf(i)
        IN  IF Cardinality(matches) # 1
            THEN /\ i' = i + 1
                 /\ pc' = "process"
                 /\ UNCHANGED <<cache, calls, err>>
            ELSE /\ Len(calls') = Len(calls) + 1
                 /\ SubSeq(calls', 1, Len(calls)) = calls
                 /\ LET c == calls'[Len(calls')]
                    IN  /\ c.at = i + 1
                        /\ {c.file_path} = matches
                        /\ \/ /\ c.out.kind = "return"
                              /\ i' = i + 1
                              /\ pc' = "process"
                              /\ err' = err
                              /\ DOMAIN cache' = DOMAIN cache \cup {file}
                              /\ cache'[file] = c.out.value
                              /\ \A f \in DOMAIN cache \ {file} :
                                    cache'[f] = cache[f]
                           \/ /\ c.out.kind = "raise"
                              /\ pc' = "failed"
                              /\ cache' = cache

\* C10: an identifier that glob resolves to no file or to several is
\* skipped: process_file is not called, nothing is written, nothing is
\* raised and the loop goes on.  An identifier that resolves to one file
\* has process_file called once on that file, and what it returns is saved
\* under the identifier's name before the loop goes on.
ThmC10_SkipOrPersist == [][StepC10]_vars

\* A pass that ran to its end over an identifier with no file, one with
\* several and one with one file, whose record is saved.
WitC10_AllThree ==
    /\ pc = "done"
    /\ \E idx \in Positions : MatchesOf(idx) = {}
    /\ \E idx \in Positions : Cardinality(MatchesOf(idx)) >= 2
    /\ \E idx \in Positions :
        /\ Cardinality(MatchesOf(idx)) = 1
        /\ EntryOf(idx) \in DOMAIN cache
        /\ cache[EntryOf(idx)] # None

====
